---- MODULE Spec2Model ----
(***************************************************************************)
(* Model of subtitution_ciphers.py: the normalizeText decorator and the    *)
(* five substitution ciphers Atbash, Caesar, TabulaRecta, AutoKey and      *)
(* Vigenere.                                                               *)
(*                                                                         *)
(* Characters are numbers:                                                 *)
(*    0..25  'A'..'Z'        26..51  'a'..'z'                              *)
(*    52     '1' (a digit)   53      ' ' (a blank)                         *)
(*    54     'e' with acute  55      'E' with acute                        *)
(*    56     the German sharp s, whose str.upper() is the two letters "SS" *)
(* A Python str is a sequence of characters.  A call's outcome is a record *)
(* [err, val]: err = "" and val the returned str, or err the name of the   *)
(* exception raised.                                                       *)
(***************************************************************************)
EXTENDS Integers, Sequences, FiniteSets, TLC

\* ------------------------------------------------------------------ bounds
MaxLen == 3

MaxKey == 2

MaxCalls == 2

\* ------------------------------------------------------- inputs enumerated
InputChars == {0, 25, 27, 52, 54, 56}

KeyChars == {1, 25}

CaesarShifts == {-27, -1, 0, 3, 26, 30}

RECURSIVE SeqsUpTo(_, _)
SeqsUpTo(S, n) ==
    IF n = 0 THEN {<<>>}
    ELSE LET shorter == SeqsUpTo(S, n - 1)
         IN  shorter \cup {Append(s, c) : s \in shorter, c \in S}

Texts == SeqsUpTo(InputChars, MaxLen)

Keys == SeqsUpTo(KeyChars, MaxKey)

\* ------------------------------------------------------------ Python model
\* (the fields of every record are written in the order TLC keeps them in)
ALPHABET == [i \in 1..26 |-> i - 1]

Ok(v) == [err |-> "", val |-> v]

Raise(e) == [err |-> e, val |-> <<>>]

\* str.index: the 0-based position of the first occurrence, -1 for ValueError
Index(s, c) ==
    LET hits == {i \in 1..Len(s) : s[i] = c}
    IN  IF hits = {} THEN -1
        ELSE (CHOOSE i \in hits : \A j \in hits : i <= j) - 1

\* s[n:] + s[:n] for 0 <= n <= len(s)
SliceRejoin(s, n) == SubSeq(s, n + 1, Len(s)) \o SubSeq(s, 1, n)

Reverse(s) == [i \in 1..Len(s) |-> s[Len(s) + 1 - i]]

IsAlpha(c) == c \in 0..51 \/ c \in {54, 55, 56}

Upper(c) ==
    IF c \in 0..25 THEN <<c>>
    ELSE IF c \in 26..51 THEN <<c - 26>>
    ELSE IF c = 54 THEN <<55>>
    ELSE IF c = 56 THEN <<18, 18>>
    ELSE <<c>>

\* the body of Cipher.normalizeText's wrapper: the text handed to func
RECURSIVE normalizeText(_)
normalizeText(text) ==
    IF text = <<>> THEN <<>>
    ELSE (IF IsAlpha(Head(text)) THEN Upper(Head(text)) ELSE <<>>)
         \o normalizeText(Tail(text))

\* ------------------------------------------------------------------ Atbash
AtbashAlpha == Reverse(ALPHABET)

\* the substitution loop shared by Atbash.encryptText and Caesar.encryptText
RECURSIVE SubstLoop(_, _, _)
SubstLoop(alpha, text, newText) ==
    IF text = <<>> THEN Ok(newText)
    ELSE LET index == Index(ALPHABET, Head(text))
         IN  IF index < 0 THEN Raise("ValueError")
             ELSE SubstLoop(alpha, Tail(text), Append(newText, alpha[index + 1]))

AtbashEncryptText(alpha, text) == SubstLoop(alpha, normalizeText(text), <<>>)

AtbashDecryptText(alpha, text) == AtbashEncryptText(alpha, normalizeText(text))

\* ------------------------------------------------------------------ Caesar
DefaultCaesarShift == 13

\* shiftArg is <<>> when the constructor is called without a shift
CaesarShift(shiftArg) == IF shiftArg = <<>> THEN DefaultCaesarShift ELSE shiftArg[1]

CaesarAlpha(shift) == SliceRejoin(ALPHABET, shift % Len(ALPHABET))

CaesarEncryptText(alpha, text) == SubstLoop(alpha, normalizeText(text), <<>>)

RECURSIVE CaesarDecryptLoop(_, _, _)
CaesarDecryptLoop(alpha, text, newText) ==
    IF text = <<>> THEN Ok(newText)
    ELSE LET index == Index(alpha, Head(text))
         IN  IF index < 0 THEN Raise("ValueError")
             ELSE CaesarDecryptLoop(alpha, Tail(text),
                                    Append(newText, ALPHABET[index + 1]))

CaesarDecryptText(alpha, text) == CaesarDecryptLoop(alpha, normalizeText(text), <<>>)

\* ----------------------------------------------------------------- AutoKey
\* zip(text, key) with key = primer + text; sign is +1
RECURSIVE AutoKeyEncryptLoop(_, _, _)
AutoKeyEncryptLoop(text, key, newText) ==
    IF text = <<>> \/ key = <<>> THEN Ok(newText)
    ELSE LET index1 == Index(ALPHABET, Head(text))
             index2 == Index(ALPHABET, Head(key))
         IN  IF index1 < 0 \/ index2 < 0 THEN Raise("ValueError")
             ELSE AutoKeyEncryptLoop(Tail(text), Tail(key),
                      Append(newText, ALPHABET[((index1 + index2) % 26) + 1]))

AutoKeyEncryptText(text, primer) ==
    LET normalText == normalizeText(text)
    IN  AutoKeyEncryptLoop(normalText, primer \o normalText, <<>>)

\* AutoKeyDecryptStep with "key += char": the ciphertext symbol, not the
\* recovered one, is appended to the key
AutoKeyDecryptStep_AppendsCipher(text, st) ==
    LET char == text[st.i + 1]
        index1 == Index(ALPHABET, char)
    IN  IF index1 < 0 THEN [st EXCEPT !.err = "ValueError"]
        ELSE IF st.i >= Len(st.key) THEN [st EXCEPT !.err = "IndexError"]
        ELSE LET index2 == Index(ALPHABET, st.key[st.i + 1])
             IN  IF index2 < 0 THEN [st EXCEPT !.err = "ValueError"]
                 ELSE LET newChar == ALPHABET[((index1 - index2) % 26) + 1]
                      IN  [st EXCEPT !.key = Append(st.key, char),
                                     !.newText = Append(st.newText, newChar),
                                     !.i = st.i + 1]

\* one iteration of AutoKey.decryptText's loop on the locals [key, newText, i]
AutoKeyDecryptStep(text, st) ==
    LET char == text[st.i + 1]
        index1 == Index(ALPHABET, char)
    IN  IF index1 < 0 THEN [st EXCEPT !.err = "ValueError"]
        ELSE IF st.i >= Len(st.key) THEN [st EXCEPT !.err = "IndexError"]
        ELSE LET index2 == Index(ALPHABET, st.key[st.i + 1])
             IN  IF index2 < 0 THEN [st EXCEPT !.err = "ValueError"]
                 ELSE LET newChar == ALPHABET[((index1 - index2) % 26) + 1]
                      IN  [st EXCEPT !.key = Append(st.key, newChar),
                                     !.newText = Append(st.newText, newChar),
                                     !.i = st.i + 1]

AutoKeyDecryptStart(primer) == [i |-> 0, err |-> "", newText |-> <<>>, key |-> primer]

RECURSIVE AutoKeyDecryptLoop(_, _)
AutoKeyDecryptLoop(text, st) ==
    IF st.err # "" THEN Raise(st.err)
    ELSE IF st.i >= Len(text) THEN Ok(st.newText)
    ELSE AutoKeyDecryptLoop(text, AutoKeyDecryptStep(text, st))

AutoKeyDecryptText(text, primer) ==
    AutoKeyDecryptLoop(normalizeText(text), AutoKeyDecryptStart(primer))

\* ---------------------------------------------------------------- Vigenere
\* sign = 1 is encryptText's loop, sign = -1 is decryptText's
RECURSIVE VigenereLoop(_, _, _, _, _)
VigenereLoop(text, key, sign, i, newText) ==
    IF i >= Len(text) THEN Ok(newText)
    ELSE LET index1 == Index(ALPHABET, text[i + 1])
         IN  IF index1 < 0 THEN Raise("ValueError")
             ELSE IF Len(key) = 0 THEN Raise("ZeroDivisionError")
             ELSE LET index2 == Index(ALPHABET, key[(i % Len(key)) + 1])
                  IN  IF index2 < 0 THEN Raise("ValueError")
                      ELSE VigenereLoop(text, key, sign, i + 1,
                               Append(newText,
                                      ALPHABET[((index1 + sign * index2) % 26) + 1]))

VigenereEncryptText(text, key) == VigenereLoop(normalizeText(text), key, 1, 0, <<>>)

VigenereDecryptText(text, key) == VigenereLoop(normalizeText(text), key, -1, 0, <<>>)

\* ------------------------------------------------------------ TabulaRecta
\* an instance is the record self = [alpha, defaultShift]
offset(self, shift) ==
    [self EXCEPT !.alpha = SliceRejoin(ALPHABET, shift % Len(ALPHABET))]

rotate(self, step) ==
    LET s == step % Len(ALPHABET)
    IN  IF s # 0 THEN [self EXCEPT !.alpha = SliceRejoin(self.alpha, s)]
        ELSE self

TabulaRectaInit(shift) ==
    [offset([alpha |-> <<>>, defaultShift |-> 0], shift) EXCEPT !.defaultShift = shift]

\* Python's "a or b" on integers
PyOr(a, b) == IF a # 0 THEN a ELSE b

\* the for loop of TabulaRecta.encryptText; an exception leaves self as it is
RECURSIVE TabulaRectaLoop(_, _, _, _)
TabulaRectaLoop(self, text, step, newText) ==
    IF text = <<>> THEN [self |-> self, out |-> Ok(newText)]
    ELSE LET index == Index(ALPHABET, Head(text))
         IN  IF index < 0 THEN [self |-> self, out |-> Raise("ValueError")]
             ELSE TabulaRectaLoop(rotate(self, step), Tail(text), step,
                                  Append(newText, self.alpha[index + 1]))

\* TabulaRectaEncryptText with "if shift: self.offset(shift)": a call
\* without a shift goes on from the row the instance is at
TabulaRectaEncryptText_KeepsRow(self, text, shift, step) ==
    LET r == TabulaRectaLoop(IF shift # 0 THEN offset(self, shift) ELSE self,
                             normalizeText(text), step, <<>>)
    IN  IF r.out.err # "" THEN r
        ELSE [self |-> offset(r.self, self.defaultShift), out |-> r.out]

\* the result is [self, out]: the instance after the call and the outcome
TabulaRectaEncryptText(self, text, shift, step) ==
    LET r == TabulaRectaLoop(offset(self, PyOr(shift, self.defaultShift)),
                             normalizeText(text), step, <<>>)
    IN  IF r.out.err # "" THEN r
        ELSE [self |-> offset(r.self, self.defaultShift), out |-> r.out]

\* shiftArg is <<>> for the default None, <<s>> for an integer s
TabulaRectaDecryptText(self, text, shiftArg, step) ==
    IF shiftArg = <<>> THEN [self |-> self, out |-> Raise("TypeError")]
    ELSE TabulaRectaEncryptText(self, normalizeText(text),
                                PyOr(-shiftArg[1], -self.defaultShift), -step)

\* ===================================================================
\* State.  Four state machines share the module; each specification runs
\* one of them and leaves the variables of the others at their initial
\* values.
\*
\* calls of Atbash, Caesar, AutoKey and Vigenere (one instance, one
\* encryptText call, then decryptText of its output)
VARIABLES cipher, alpha, ctor, pc, raw, key, handed, enc, dec

\* a TabulaRecta instance used by one caller, call after call; trDirty
\* records that the last call found the alphabet away from its default row
VARIABLES trPc, trSelf, trCtor, trCalls, trLast, trOut, trOrig, trDirty

\* a TabulaRecta instance used by two threads, statement by statement
VARIABLES cSelf, cCtor, cFrame

\* the locals of one AutoKey.decryptText call, iteration by iteration
VARIABLES akPc, akText, akPrimer, akSt

callVars == <<cipher, alpha, ctor, pc, raw, key, handed, enc, dec>>

trVars == <<trPc, trSelf, trCtor, trCalls, trLast, trOut, trOrig, trDirty>>

concVars == <<cSelf, cCtor, cFrame>>

akVars == <<akPc, akText, akPrimer, akSt>>

vars == <<callVars, trVars, concVars, akVars>>

NoOutcome == [err |-> "none", val |-> <<>>]

NoSelf == [alpha |-> <<>>, defaultShift |-> 0]

Call(op, text, shiftArg, stepArg) ==
    [text |-> text, shiftArg |-> shiftArg, op |-> op, stepArg |-> stepArg]

NoCall == Call("none", <<>>, <<>>, <<>>)

Threads == {1, 2}

Frame(text, shift, step) ==
    [text |-> text, newText |-> <<>>, shift |-> shift, step |-> step,
     pc |-> "offset", k |-> 0]

IdleFrame == [Frame(<<>>, 0, 0) EXCEPT !.pc = "idle"]

CallInit ==
    /\ cipher = "none"
    /\ alpha = <<>>
    /\ ctor = <<>>
    /\ pc = "start"
    /\ raw = <<>>
    /\ key = <<>>
    /\ handed = <<>>
    /\ enc = NoOutcome
    /\ dec = NoOutcome

TRInit ==
    /\ trPc = "start"
    /\ trSelf = NoSelf
    /\ trCtor = 0
    /\ trCalls = 0
    /\ trLast = NoCall
    /\ trOut = NoOutcome
    /\ trOrig = NoCall
    /\ trDirty = FALSE

ConcInit ==
    /\ cSelf = NoSelf
    /\ cCtor = 0
    /\ cFrame = [t \in Threads |-> IdleFrame]

AKInit ==
    /\ akPc = "idle"
    /\ akText = <<>>
    /\ akPrimer = <<>>
    /\ akSt = AutoKeyDecryptStart(<<>>)

Init == CallInit /\ TRInit /\ ConcInit /\ AKInit

\* ============================= Atbash, Caesar, AutoKey, Vigenere calls
Construct(name, a, c) ==
    /\ pc = "start"
    /\ cipher' = name
    /\ alpha' = a
    /\ ctor' = c
    /\ pc' = "ready"
    /\ UNCHANGED <<raw, key, handed, enc, dec>>
    /\ UNCHANGED <<trVars, concVars, akVars>>

AtbashInit == Construct("Atbash", AtbashAlpha, <<>>)

CaesarInit ==
    /\ pc = "start"
    /\ \E shiftArg \in {<<>>} \cup {<<s>> : s \in CaesarShifts} :
           Construct("Caesar", CaesarAlpha(CaesarShift(shiftArg)), shiftArg)

AutoKeyInit == Construct("AutoKey", <<>>, <<>>)

VigenereInit == Construct("Vigenere", <<>>, <<>>)

Encrypt(name, text, k, outcome) ==
    /\ pc = "ready"
    /\ cipher = name
    /\ raw' = text
    /\ key' = k
    /\ handed' = normalizeText(text)
    /\ enc' = outcome
    /\ pc' = "encrypted"
    /\ UNCHANGED <<cipher, alpha, ctor, dec>>
    /\ UNCHANGED <<trVars, concVars, akVars>>

Decrypt(name, outcome) ==
    /\ pc = "encrypted"
    /\ cipher = name
    /\ enc.err = ""
    /\ dec' = outcome
    /\ pc' = "decrypted"
    /\ UNCHANGED <<cipher, alpha, ctor, raw, key, handed, enc>>
    /\ UNCHANGED <<trVars, concVars, akVars>>

AtbashEncrypt ==
    /\ cipher = "Atbash"
    /\ pc = "ready"
    /\ \E text \in Texts :
           Encrypt("Atbash", text, <<>>, AtbashEncryptText(alpha, text))

AtbashDecrypt == Decrypt("Atbash", AtbashDecryptText(alpha, enc.val))

CaesarEncrypt ==
    /\ cipher = "Caesar"
    /\ pc = "ready"
    /\ \E text \in Texts :
           Encrypt("Caesar", text, <<>>, CaesarEncryptText(alpha, text))

CaesarDecrypt == Decrypt("Caesar", CaesarDecryptText(alpha, enc.val))

AutoKeyEncrypt ==
    /\ cipher = "AutoKey"
    /\ pc = "ready"
    /\ \E text \in Texts, primer \in Keys :
           Encrypt("AutoKey", text, primer, AutoKeyEncryptText(text, primer))

AutoKeyDecrypt == Decrypt("AutoKey", AutoKeyDecryptText(enc.val, key))

VigenereEncrypt ==
    /\ cipher = "Vigenere"
    /\ pc = "ready"
    /\ \E text \in Texts, k \in Keys :
           Encrypt("Vigenere", text, k, VigenereEncryptText(text, k))

VigenereDecrypt == Decrypt("Vigenere", VigenereDecryptText(enc.val, key))

Next ==
    \/ AtbashInit
    \/ CaesarInit
    \/ AutoKeyInit
    \/ VigenereInit
    \/ AtbashEncrypt
    \/ AtbashDecrypt
    \/ CaesarEncrypt
    \/ CaesarDecrypt
    \/ AutoKeyEncrypt
    \/ AutoKeyDecrypt
    \/ VigenereEncrypt
    \/ VigenereDecrypt

Spec == Init /\ [][Next]_vars

\* ======================================== TabulaRecta, call after call
TRChars == {0, 54}

MaxTRLen == 2

TRTexts == SeqsUpTo(TRChars, MaxTRLen)

TRCtorShifts == {0, 5}

TRShiftArgs == {<<>>, <<0>>, <<-1>>, <<26>>}

TRStepArgs == {<<>>, <<0>>, <<-1>>}

\* the defaults of encryptText(text, shift=0, step=1) and of
\* decryptText(text, shift=None, step=1)
EncShift(shiftArg) == IF shiftArg = <<>> THEN 0 ELSE shiftArg[1]

StepOf(stepArg) == IF stepArg = <<>> THEN 1 ELSE stepArg[1]

TRCall(self, call) ==
    IF call.op = "E"
    THEN TabulaRectaEncryptText(self, call.text, EncShift(call.shiftArg),
                                StepOf(call.stepArg))
    ELSE TabulaRectaDecryptText(self, call.text, call.shiftArg,
                                StepOf(call.stepArg))

TRConstruct ==
    \E shift \in TRCtorShifts :
        /\ trPc = "start"
        /\ trSelf' = TabulaRectaInit(shift)
        /\ trCtor' = shift
        /\ trPc' = "ready"
        /\ UNCHANGED <<trCalls, trLast, trOut, trOrig, trDirty>>
        /\ UNCHANGED <<callVars, concVars, akVars>>

TRDo(call, orig) ==
    LET r == TRCall(trSelf, call)
    IN  /\ trPc = "ready"
        /\ trCalls < MaxCalls
        /\ trSelf' = r.self
        /\ trDirty' = (trSelf.alpha # TabulaRectaInit(trCtor).alpha)
        /\ trOut' = r.out
        /\ trLast' = call
        /\ trOrig' = orig
        /\ trCalls' = trCalls + 1
        /\ UNCHANGED <<trPc, trCtor>>
        /\ UNCHANGED <<callVars, concVars, akVars>>

TREncrypt ==
    /\ trPc = "ready"
    /\ trCalls < MaxCalls
    /\ \E text \in TRTexts, shiftArg \in TRShiftArgs, stepArg \in TRStepArgs :
           TRDo(Call("E", text, shiftArg, stepArg), NoCall)

TRDecrypt ==
    /\ trPc = "ready"
    /\ trCalls < MaxCalls
    /\ \E text \in TRTexts, shiftArg \in TRShiftArgs, stepArg \in TRStepArgs :
           TRDo(Call("D", text, shiftArg, stepArg), NoCall)

\* decryptText of the output of the encryptText call just made, with the
\* arguments of that call
TRDecryptBack ==
    /\ trLast.op = "E"
    /\ trOut.err = ""
    /\ TRDo([trLast EXCEPT !.op = "D", !.text = trOut.val], trLast)

NextTR ==
    \/ TRConstruct
    \/ TREncrypt
    \/ TRDecrypt
    \/ TRDecryptBack

SpecTR == Init /\ [][NextTR]_vars

\* ================================ TabulaRecta, two threads, one instance
\* Each thread makes one encryptText call.  A thread's statements are the
\* steps: offset (line 215), the lookup of one symbol (lines 220-222), the
\* rotation after it (line 225) and the reset (line 228).
ConcChars == {0, 25}

MaxConcLen == 2

ConcTexts == SeqsUpTo(ConcChars, MaxConcLen)

ConcCtorShifts == {0, 5}

ConcShifts == {0, 3}

ConcSteps == {1, -1}

CConstruct ==
    \E shift \in ConcCtorShifts :
        /\ cSelf = NoSelf
        /\ cSelf' = TabulaRectaInit(shift)
        /\ cCtor' = shift
        /\ UNCHANGED cFrame
        /\ UNCHANGED <<callVars, trVars, akVars>>

CCall(t) ==
    /\ cSelf # NoSelf
    /\ cFrame[t].pc = "idle"
    /\ \E text \in ConcTexts, shift \in ConcShifts, step \in ConcSteps :
        /\ cFrame' = [cFrame EXCEPT ![t] = Frame(normalizeText(text), shift, step)]
        /\ UNCHANGED <<cSelf, cCtor>>
        /\ UNCHANGED <<callVars, trVars, akVars>>

COffset(t) ==
    /\ cFrame[t].pc = "offset"
    /\ cSelf' = offset(cSelf, PyOr(cFrame[t].shift, cSelf.defaultShift))
    /\ cFrame' = [cFrame EXCEPT ![t].pc = "lookup"]
    /\ UNCHANGED cCtor
    /\ UNCHANGED <<callVars, trVars, akVars>>

CLookup(t) ==
    LET f == cFrame[t]
    IN  /\ f.pc = "lookup"
        /\ IF f.k >= Len(f.text)
           THEN cFrame' = [cFrame EXCEPT ![t].pc = "reset"]
           ELSE LET index == Index(ALPHABET, f.text[f.k + 1])
                IN  IF index < 0
                    THEN cFrame' = [cFrame EXCEPT ![t].pc = "raised"]
                    ELSE cFrame' = [cFrame EXCEPT
                             ![t].newText = Append(f.newText, cSelf.alpha[index + 1]),
                             ![t].pc = "rotate"]
        /\ UNCHANGED <<cSelf, cCtor>>
        /\ UNCHANGED <<callVars, trVars, akVars>>

CRotate(t) ==
    /\ cFrame[t].pc = "rotate"
    /\ cSelf' = rotate(cSelf, cFrame[t].step)
    /\ cFrame' = [cFrame EXCEPT ![t].k = cFrame[t].k + 1, ![t].pc = "lookup"]
    /\ UNCHANGED cCtor
    /\ UNCHANGED <<callVars, trVars, akVars>>

CReset(t) ==
    /\ cFrame[t].pc = "reset"
    /\ cSelf' = offset(cSelf, cSelf.defaultShift)
    /\ cFrame' = [cFrame EXCEPT ![t].pc = "done"]
    /\ UNCHANGED cCtor
    /\ UNCHANGED <<callVars, trVars, akVars>>

NextConc ==
    \/ CConstruct
    \/ \E t \in Threads : CCall(t)
    \/ \E t \in Threads : COffset(t)
    \/ \E t \in Threads : CLookup(t)
    \/ \E t \in Threads : CRotate(t)
    \/ \E t \in Threads : CReset(t)

SpecConc == Init /\ [][NextConc]_vars

\* ============================== AutoKey.decryptText, iteration by iteration
AKCall ==
    /\ akPc = "idle"
    /\ \E text \in Texts, primer \in Keys :
        /\ akText' = normalizeText(text)
        /\ akPrimer' = primer
        /\ akSt' = AutoKeyDecryptStart(primer)
        /\ akPc' = "loop"
        /\ UNCHANGED <<callVars, trVars, concVars>>

AKStep ==
    /\ akPc = "loop"
    /\ akSt.i < Len(akText)
    /\ akSt' = AutoKeyDecryptStep(akText, akSt)
    /\ akPc' = IF akSt'.err # "" THEN "raised" ELSE "loop"
    /\ UNCHANGED <<akText, akPrimer>>
    /\ UNCHANGED <<callVars, trVars, concVars>>

AKReturn ==
    /\ akPc = "loop"
    /\ akSt.i >= Len(akText)
    /\ akPc' = "done"
    /\ UNCHANGED <<akText, akPrimer, akSt>>
    /\ UNCHANGED <<callVars, trVars, concVars>>

NextAK ==
    \/ AKCall
    \/ AKStep
    \/ AKReturn

SpecAK == Init /\ [][NextAK]_vars

\* ===================================================================
\* Properties
\*
\* normalize of the specification (section 4.1): the letters of the
\* 26-letter Alphabet, upper-cased, in input order; everything else dropped
RECURSIVE Normalize(_)
Normalize(t) ==
    IF t = <<>> THEN <<>>
    ELSE (IF Head(t) \in 0..25 THEN <<Head(t)>>
          ELSE IF Head(t) \in 26..51 THEN <<Head(t) - 26>>
          ELSE <<>>) \o Normalize(Tail(t))

OnlyAlphabet(t) == \A i \in 1..Len(t) : t[i] \in 0..25

Called == pc \in {"encrypted", "decrypted"}

\* C1: TabulaRecta.decryptText(TabulaRecta.encryptText(t, shift, step),
\* shift, step) returns normalize(t) when both calls get the same shift and
\* step, passed explicitly or left at their defaults in both calls.  Stated
\* here for the texts all of whose letters are Alphabet letters.
C1_RoundTripTabulaRecta ==
    (trOrig.op = "E" /\ normalizeText(trOrig.text) = Normalize(trOrig.text))
        => trOut = Ok(Normalize(trOrig.text))

\* C2: for every non-empty primer of Alphabet letters and every text t,
\* AutoKey.decryptText(AutoKey.encryptText(t, primer), primer) returns
\* normalize(t): encryptText returns, and decryptText of what it returned
\* gives normalize(t).
C2_RoundTripAutoKey ==
    (cipher = "AutoKey" /\ Called /\ key # <<>> /\ OnlyAlphabet(key))
        => /\ enc.err = ""
           /\ pc = "decrypted" => dec = Ok(Normalize(raw))

\* C3: for every text t, decryptText(encryptText(t)) returns normalize(t)
\* for Atbash, for Caesar with any constructor shift and for Vigenere with
\* any non-empty key of Alphabet letters.
C3_RoundTripStateless ==
    (/\ cipher \in {"Atbash", "Caesar", "Vigenere"}
     /\ Called
     /\ cipher = "Vigenere" => (key # <<>> /\ OnlyAlphabet(key)))
        => /\ enc.err = ""
           /\ pc = "decrypted" => dec = Ok(Normalize(raw))

\* C4: an empty Vigenere key or AutoKey primer is rejected when the cipher
\* is constructed, so no encryptText or decryptText call ever runs with an
\* empty key or primer.
C4_EmptyKeyNeverUsed ==
    (cipher \in {"AutoKey", "Vigenere"} /\ Called) => key # <<>>

\* C5: when two encryptText calls run concurrently on one TabulaRecta
\* instance, each call returns the output it returns when run alone.
C5_ConcurrentCallsIndependent ==
    \A t \in Threads :
        cFrame[t].pc = "done"
            => Ok(cFrame[t].newText) =
                   TabulaRectaEncryptText(TabulaRectaInit(cCtor), cFrame[t].text,
                                          cFrame[t].shift, cFrame[t].step).out

\* C6: after any sequence of earlier calls on one TabulaRecta instance, a
\* call has the outcome of the same call on a freshly constructed instance
\* with the same constructor offset.
C6_NoLeakAcrossCalls ==
    trCalls > 0 => trOut = TRCall(TabulaRectaInit(trCtor), trLast).out

\* a second call that returned a text, made on an instance whose alphabet
\* an earlier, failed call had left rotated
C6_Witness ==
    /\ trCalls >= 2
    /\ trDirty
    /\ trOut.err = ""
    /\ Len(trOut.val) >= 1

\* C7: encryptText(t, shift, step) outputs at every position k of
\* normalize(t) the letter of index (i_k + shift + k*step) mod 26, for any
\* constructor offset and every integer shift passed to the call.  Stated
\* here for the calls that return.
C7_EncryptFormula ==
    (trLast.op = "E" /\ trLast.shiftArg # <<>> /\ trOut.err = "")
        => LET n == Normalize(trLast.text)
           IN  trOut.val = [k \in 1..Len(n) |->
                   (n[k] + trLast.shiftArg[1] + (k - 1) * StepOf(trLast.stepArg)) % 26]

\* C8: the text normalizeText hands to encryptText contains only the 26
\* Alphabet letters, in their input order, and is no longer than the input.
C8_NormalizerOutput ==
    Called => /\ OnlyAlphabet(handed)
              /\ Len(handed) <= Len(raw)
              /\ handed = Normalize(raw)

\* C9: Caesar.encryptText maps index i to (i + s) mod 26 and decryptText
\* maps index i to (i - s) mod 26 for every constructor shift s, 13 when
\* none is given; when s is congruent to 0 mod 26, encryptText(t) is
\* normalize(t) and no error is raised.
C9_CaesarArithmetic ==
    (cipher = "Caesar" /\ Called)
        => LET s == IF ctor = <<>> THEN 13 ELSE ctor[1]
               n == Normalize(raw)
           IN  /\ enc = Ok([i \in 1..Len(n) |-> (n[i] + s) % 26])
               /\ s % 26 = 0 => enc = Ok(n)
               /\ pc = "decrypted"
                      => dec = Ok([i \in 1..Len(enc.val) |-> (enc.val[i] - s) % 26])

\* C10: during AutoKey.decryptText with a primer of length P >= 1, when
\* position k is processed the key has length P + k, its symbol at position
\* j is primer[j] for j < P and the recovered symbol at j - P otherwise.
C10_KeyGrowth ==
    (akPc \in {"loop", "raised", "done"} /\ Len(akPrimer) >= 1)
        => LET P == Len(akPrimer)
           IN  /\ Len(akSt.newText) = akSt.i
               /\ Len(akSt.key) = P + akSt.i
               /\ \A j \in 1..Len(akSt.key) :
                      akSt.key[j] = IF j <= P THEN akPrimer[j]
                                    ELSE akSt.newText[j - P]

\* position P has been processed: its key symbol was the recovered symbol 0
C10_Witness ==
    /\ akPc = "loop"
    /\ Len(akPrimer) >= 1
    /\ akSt.i > Len(akPrimer)

====
